---- MODULE Spec2Model ----
(***************************************************************************)
(* Model of the AskRGIPT retrieval and indexing engine:                    *)
(*   backend/indexing_pipeline.py  (IndexingPipeline)                      *)
(*   backend/vector_store.py       (VectorStore.add_documents, search)     *)
(*   backend/document_processor.py (DocumentProcessor.process_document)    *)
(* The document store is a set of files with a content and an mtime; the   *)
(* vector index is the ChromaDB collection "rgipt_documents"; the index    *)
(* metadata store is index_metadata.json and its in-memory copy.           *)
(***************************************************************************)
EXTENDS Integers, Sequences, FiniteSets, TLC

\* ------------------------------------------------------------------ bounds
\* Number of indexing passes (index_all_documents / reindex_file) in a run.
MaxPasses == 2
\* Number of changes to the document store in a run.
MaxWrites == 1
\* Number of failures (a crash, a failed insert, a failed save) in a run.
MaxFaults == 1
\* batch_size of add_documents (default 100), scaled down.
BatchSize == 1

\* ------------------------------------------------------------ document store
\* The supported files, in the order the folder walk meets them
\* (folders = ["pdfs", "notices", "policies", "handbooks"]).
Listing == <<"pdfs/a.pdf", "policies/b.txt">>

Paths == {Listing[k] : k \in 1..Len(Listing)}

\* The file contents told apart: content 1 is a file extract_text gets no
\* text from, content c > 1 is split into c - 1 chunks.
Contents == {1, 2, 3}

\* The modification times told apart.
Mtimes == {1, 2}

\* A path with no file.
Absent == [content |-> 0, mtime |-> 0]

\* os.path.exists
Exists(fsys, p) == fsys[p] # Absent

\* _get_file_hash: MD5 of the bytes, taken as injective on the contents.
FileHash(fsys, p) == fsys[p].content

\* os.path.getmtime
FileMtime(fsys, p) == fsys[p].mtime

\* _determine_category: from substrings of the lower-cased path.
Category(p) == IF p = "policies/b.txt" THEN "policies" ELSE "pdfs"

\* Number of chunks the splitter makes of a content; none when extract_text
\* returns no text.
ChunkCount(c) == c - 1

\* process_document: the chunk texts of a file, in sequence order.
ProcessChunks(fsys, p) ==
    [k \in 1..ChunkCount(fsys[p].content) |-> <<fsys[p].content, k - 1>>]

\* process_document: the metadata list, index-aligned with the chunks.
ProcessMetadata(fsys, p) ==
    [k \in 1..ChunkCount(fsys[p].content) |->
        [file_path |-> p, chunk_id |-> k - 1, category |-> Category(p)]]

\* ------------------------------------------------------ index metadata store
\* No IndexedFileRecord for a path.
NoRecord == [hash |-> 0, mtime |-> 0, chunk_count |-> 0, indexed_at |-> 0]

\* The metadata _load_index_metadata returns when there is no usable file.
EmptyMetadata ==
    [indexed_files |-> [p \in Paths |-> NoRecord],
     last_indexed |-> 0, total_chunks |-> 0]

\* _load_index_metadata: the file's contents, or the default when the file
\* is missing or does not parse.
LoadIndexMetadata(file) ==
    IF file.state = "ok" THEN file.data ELSE EmptyMetadata

\* _is_file_indexed reading the record under keys that _mark_file_indexed
\* never writes: both reads give None (0), which no hash and no mtime equals.
IsFileIndexedWrongKeys(meta, fsys, p) ==
    /\ Exists(fsys, p)
    /\ meta.indexed_files[p] # NoRecord
    /\ \/ 0 = FileHash(fsys, p)
       \/ 0 = FileMtime(fsys, p)

\* A check that trusts the hash alone; _is_file_indexed also accepts an
\* equal modification time.
IsFileIndexedHashOnly(meta, fsys, p) ==
    /\ Exists(fsys, p)
    /\ meta.indexed_files[p] # NoRecord
    /\ meta.indexed_files[p].hash = FileHash(fsys, p)

\* _is_file_indexed
IsFileIndexed(meta, fsys, p) ==
    /\ Exists(fsys, p)
    /\ meta.indexed_files[p] # NoRecord
    /\ \/ meta.indexed_files[p].hash = FileHash(fsys, p)
       \/ meta.indexed_files[p].mtime = FileMtime(fsys, p)

\* _mark_file_indexed
MarkFileIndexed(meta, fsys, p, n, t) ==
    [meta EXCEPT !.indexed_files[p] =
        [hash |-> FileHash(fsys, p), mtime |-> FileMtime(fsys, p),
         chunk_count |-> n, indexed_at |-> t]]

\* ---------------------------------------------------------------- variables
VARIABLES
    fs,               \* document store: path -> [content, mtime] or Absent
    index_metadata,   \* IndexingPipeline.index_metadata (in memory)
    metadata_file,    \* index_metadata.json on disk
    db,               \* the ChromaDB collection "rgipt_documents"
    pipeline_handle,  \* IndexingPipeline.vector_store.collection
    query_handle,     \* the query side's VectorStore.collection
    pc,               \* position of the indexing pass
    op,               \* the pass in progress or last run, with its arguments
    all_chunks,       \* index_all_documents: all_chunks / reindex_file: chunks
    all_metadata,     \* index_all_documents: all_metadata
    processed_files,  \* index_all_documents: processed_files
    skipped_files,    \* index_all_documents: skipped_files
    i,                \* add_documents: start of the next batch
    now,              \* datetime.now(), one tick per pass
    writes,           \* number of changes made to the document store
    faults,           \* number of failures so far
    outcome,          \* how the last pass ended
    last_search,      \* what a search returned, until the pass moves on
    edited,           \* history: paths written since the last pass
    prev,             \* history: the index as the pass in progress found it
    id_history,       \* history: ids add_documents assigned, before and
                      \* since the last clear of the collection
    reranker,         \* VectorStore.reranker is not None
    request,          \* the call the query side is serving
    qpc,              \* position of the query side in that call
    response,         \* the dictionary the call returns
    searches,         \* history: the VectorStore.search calls of the request
    events,           \* what stream_query has yielded
    llm_calls         \* history: the client.chat.completions.create calls
                      \* of the request, by their outcome

vars == <<fs, index_metadata, metadata_file, db, pipeline_handle, query_handle,
          pc, op, all_chunks, all_metadata, processed_files,
          skipped_files, i, now, writes, faults, outcome, last_search,
          edited,
          prev, id_history,
          reranker, request, qpc, response, searches, events, llm_calls>>

\* The variables of the query side.
query_vars == <<reranker, request, qpc, response, searches, events, llm_calls>>

\* No call is being served.
NoRequest == [kind |-> "none"]

\* No dictionary has been returned.
NoResponse == [keys |-> {}]

\* The query side before its first call, with the re-ranker loaded.
QueryIdle ==
    /\ reranker = TRUE
    /\ request = NoRequest
    /\ qpc = "idle"
    /\ response = NoResponse
    /\ searches = <<>>
    /\ events = <<>>
    /\ llm_calls = <<>>

NoOp == [kind |-> "none", incremental |-> FALSE, clear_existing |-> FALSE,
         path |-> ""]

\* The states a file can be in at the start: any content, with the earliest
\* modification time.
InitialFileStates == [content : Contents, mtime : {1}]

\* No result of a search yet.
NoSearch == [status |-> "none", at |-> "idle", docs |-> <<>>]

\* VectorStore.__init__ and IndexingPipeline.__init__ on a fresh vector_db
\* directory (empty collection, no index_metadata.json), over any contents
\* of the data directory.
Init ==
    /\ fs \in [Paths -> InitialFileStates]
    /\ edited = {}
    /\ prev = [docs |-> <<>>, indexed_files |-> [p \in Paths |-> NoRecord],
               indexed |-> {}, clean |-> FALSE, edited |-> {}]
    /\ id_history = [before |-> {}, since |-> {}]
    /\ last_search = NoSearch
    /\ writes = 0
    /\ faults = 0
    /\ index_metadata = EmptyMetadata
    /\ metadata_file = [state |-> "missing", data |-> EmptyMetadata]
    /\ db = [exists |-> TRUE, uid |-> 1, docs |-> <<>>]
    /\ pipeline_handle = 1
    /\ query_handle = 1
    /\ pc = "idle"
    /\ op = NoOp
    /\ all_chunks = <<>>
    /\ all_metadata = <<>>
    /\ processed_files = {}
    /\ skipped_files = {}
    /\ i = 0
    /\ now = 0
    /\ outcome = "none"
    /\ QueryIdle

\* ------------------------------------------------------------- vector index
\* A collection handle names its collection by the collection's own id, not
\* by the name "rgipt_documents": it is usable while that collection exists.
HandleValid(h) == db.exists /\ db.uid = h

Min(a, b) == IF a < b THEN a ELSE b

\* add_documents: ids = [f"doc_{i+j}" for j in range(len(batch_chunks))],
\* "doc_n" written as n.
BatchIds(start, chunks) == start .. (Min(start + BatchSize, Len(chunks)) - 1)

\* The records one collection.add call submits.
BatchRecords(start, chunks, metadata) ==
    [id \in BatchIds(start, chunks) |->
        [document |-> chunks[id + 1], metadata |-> metadata[id + 1]]]

\* collection.add of a persistent ChromaDB client: a record whose id is
\* already stored is dropped without an error, the stored record stays.
CollectionAdd(docs, new) == docs @@ new

\* client.get_or_create_collection in VectorStore.__init__.
GetOrCreate == IF db.exists THEN db
               ELSE [exists |-> TRUE, uid |-> db.uid + 1, docs |-> <<>>]

\* Variables an action of one component leaves alone.
store_vars == <<fs, writes, edited>>
chroma_vars == <<db, pipeline_handle, query_handle>>
pass_vars == <<op, all_chunks, all_metadata, processed_files, skipped_files,
               now, prev>>

\* ------------------------------------------------------- indexing pipeline
\* index_all_documents, the walk over the folders: from the k-th listed file
\* on, with acc the locals and the in-memory metadata so far.
RECURSIVE Walk(_, _, _, _)
Walk(k, acc, incremental, t) ==
    IF k > Len(Listing) THEN acc
    ELSE LET p == Listing[k]
             chunks == ProcessChunks(fs, p)
         IN  IF ~Exists(fs, p) THEN Walk(k + 1, acc, incremental, t)
             ELSE IF incremental /\ IsFileIndexed(acc.meta, fs, p)
             THEN Walk(k + 1, [acc EXCEPT !.skipped = @ \cup {p}],
                       incremental, t)
             ELSE IF Len(chunks) > 0
             THEN Walk(k + 1,
                       [acc EXCEPT !.chunks = @ \o chunks,
                                   !.metadata = @ \o ProcessMetadata(fs, p),
                                   !.processed = @ \cup {p},
                                   !.meta = MarkFileIndexed(@, fs, p,
                                                            Len(chunks), t)],
                       incremental, t)
             ELSE Walk(k + 1, acc, incremental, t)

\* History: what a pass finds when it starts.
Snapshot ==
    [docs |-> db.docs,
     indexed_files |-> index_metadata.indexed_files,
     indexed |-> processed_files \cup skipped_files,
     clean |-> op.kind = "index_all" /\ op.incremental /\ outcome = "ok",
     edited |-> edited]

\* index_all_documents up to the call of add_documents: walks the folders,
\* skips, processes and marks; with nothing staged the pass ends here.
IndexAllDocuments(incremental, clear_existing) ==
    /\ UNCHANGED query_vars
    /\ pc = "idle"
    /\ now < MaxPasses
    /\ LET t == now + 1
           r == Walk(1, [chunks |-> <<>>, metadata |-> <<>>,
                         processed |-> {}, skipped |-> {},
                         meta |-> index_metadata], incremental, t)
       IN  /\ now' = t
           /\ op' = [kind |-> "index_all", incremental |-> incremental,
                     clear_existing |-> clear_existing, path |-> ""]
           /\ all_chunks' = r.chunks
           /\ all_metadata' = r.metadata
           /\ processed_files' = r.processed
           /\ skipped_files' = r.skipped
           /\ index_metadata' = r.meta
           /\ i' = 0
           /\ IF r.chunks = <<>>
              THEN pc' = "idle" /\ outcome' = "ok"
              ELSE /\ pc' = IF clear_existing THEN "delete" ELSE "batch"
                   /\ outcome' = "running"
    /\ prev' = Snapshot
    /\ edited' = {}
    /\ last_search' = NoSearch
    /\ UNCHANGED <<faults, fs, writes, metadata_file, chroma_vars, id_history>>

\* reindex_file up to the call of add_documents.
ReindexFile(p) ==
    /\ UNCHANGED query_vars
    /\ pc = "idle"
    /\ now < MaxPasses
    /\ now' = now + 1
    /\ op' = [kind |-> "reindex", incremental |-> FALSE,
              clear_existing |-> FALSE, path |-> p]
    /\ processed_files' = {}
    /\ skipped_files' = {}
    /\ i' = 0
    /\ IF ~Exists(fs, p)
       THEN /\ pc' = "idle" /\ outcome' = "ok"
            /\ all_chunks' = <<>> /\ all_metadata' = <<>>
            /\ UNCHANGED index_metadata
       ELSE /\ index_metadata' =
                   [index_metadata EXCEPT !.indexed_files[p] = NoRecord]
            /\ all_chunks' = ProcessChunks(fs, p)
            /\ all_metadata' = ProcessMetadata(fs, p)
            /\ IF ProcessChunks(fs, p) = <<>>
               THEN pc' = "idle" /\ outcome' = "ok"
               ELSE pc' = "batch" /\ outcome' = "running"
    /\ prev' = Snapshot
    /\ edited' = {}
    /\ last_search' = NoSearch
    /\ UNCHANGED <<faults, fs, writes, metadata_file, chroma_vars, id_history>>

\* add_documents, clear_existing: client.delete_collection.
DeleteCollection ==
    /\ UNCHANGED query_vars
    /\ pc = "delete"
    /\ db' = [db EXCEPT !.exists = FALSE, !.docs = <<>>]
    /\ id_history' = [before |-> id_history.before \cup id_history.since,
                      since |-> {}]
    /\ pc' = "create"
    /\ last_search' = NoSearch
    /\ UNCHANGED <<faults, store_vars, index_metadata, metadata_file, pipeline_handle,
                   query_handle, pass_vars, i, outcome>>

\* add_documents, clear_existing: client.create_collection, whose result
\* replaces self.collection.
CreateCollection ==
    /\ UNCHANGED query_vars
    /\ pc = "create"
    /\ db' = [exists |-> TRUE, uid |-> db.uid + 1, docs |-> <<>>]
    /\ pipeline_handle' = db.uid + 1
    /\ pc' = "batch"
    /\ last_search' = NoSearch
    /\ UNCHANGED <<faults, store_vars, index_metadata, metadata_file, query_handle,
                   pass_vars, i, outcome, id_history>>

\* add_documents: one turn of the batch loop.
AddBatch ==
    /\ UNCHANGED query_vars
    /\ pc = "batch"
    /\ id_history' = [id_history EXCEPT
                         !.since = @ \cup BatchIds(i, all_chunks)]
    /\ db' = [db EXCEPT !.docs =
                 CollectionAdd(@, BatchRecords(i, all_chunks, all_metadata))]
    /\ i' = i + BatchSize
    /\ pc' = IF i + BatchSize >= Len(all_chunks) THEN "finish" ELSE "batch"
    /\ UNCHANGED outcome
    /\ last_search' = NoSearch
    /\ UNCHANGED <<faults, store_vars, index_metadata, metadata_file, pipeline_handle,
                   query_handle, pass_vars>>

\* add_documents: collection.add fails for a reason of the backend; the
\* exception leaves add_documents and the pass.
AddBatchFails ==
    /\ UNCHANGED query_vars
    /\ faults < MaxFaults
    /\ faults' = faults + 1
    /\ pc = "batch"
    /\ pc' = "idle"
    /\ outcome' = "insert_error"
    /\ last_search' = NoSearch
    /\ UNCHANGED <<store_vars, index_metadata, metadata_file, chroma_vars,
                   pass_vars, i, id_history>>

\* The in-memory metadata at the end of a pass, before it is saved:
\* index_all_documents sets last_indexed and total_chunks, reindex_file
\* marks its file.
FinalMetadata ==
    IF op.kind = "reindex"
    THEN MarkFileIndexed(index_metadata, fs, op.path, Len(all_chunks), now)
    ELSE [index_metadata EXCEPT !.last_indexed = now,
                                !.total_chunks = Len(all_chunks)]

\* The end of a pass: _save_index_metadata writes the file.
SaveIndexMetadata ==
    /\ UNCHANGED query_vars
    /\ pc = "finish"
    /\ index_metadata' = FinalMetadata
    /\ metadata_file' = [state |-> "ok", data |-> FinalMetadata]
    /\ pc' = "idle"
    /\ outcome' = "ok"
    /\ last_search' = NoSearch
    /\ UNCHANGED <<faults, store_vars, chroma_vars, pass_vars, i,
                   id_history>>

\* _save_index_metadata raises: open fails and the file is as before, or
\* json.dump fails and leaves a file that no longer parses.
SaveIndexMetadataFails ==
    /\ UNCHANGED query_vars
    /\ faults < MaxFaults
    /\ faults' = faults + 1
    /\ pc = "finish"
    /\ index_metadata' = FinalMetadata
    /\ metadata_file' \in {metadata_file,
                           [state |-> "corrupt", data |-> EmptyMetadata]}
    /\ pc' = "idle"
    /\ outcome' = "save_error"
    /\ last_search' = NoSearch
    /\ UNCHANGED <<store_vars, chroma_vars, pass_vars, i,
                   id_history>>

\* The pipeline's process dies in the middle of a pass and is started again:
\* IndexingPipeline.__init__ reloads the metadata and reopens the collection.
CrashAndRestart ==
    /\ UNCHANGED query_vars
    /\ faults < MaxFaults
    /\ faults' = faults + 1
    /\ pc # "idle"
    /\ index_metadata' = LoadIndexMetadata(metadata_file)
    /\ db' = GetOrCreate
    /\ pipeline_handle' = GetOrCreate.uid
    /\ pc' = "idle"
    /\ outcome' = "crashed"
    /\ last_search' = NoSearch
    /\ UNCHANGED <<store_vars, metadata_file, query_handle,
                   pass_vars, i, id_history>>

\* ------------------------------------------------------------ query side
\* VectorStore.search through the query side's handle while a pass is in
\* progress: collection.query sees what the collection holds at that moment,
\* and raises when the handle's collection has been deleted.
Search ==
    /\ UNCHANGED query_vars
    /\ pc # "idle"
    /\ last_search' = IF HandleValid(query_handle)
                      THEN [status |-> "ok", at |-> pc, docs |-> db.docs]
                      ELSE [status |-> "error", at |-> pc, docs |-> <<>>]
    /\ last_search' # last_search
    /\ UNCHANGED <<faults, store_vars, index_metadata, metadata_file, chroma_vars,
                   pass_vars, pc, i, outcome, id_history>>

\* ------------------------------------------------------------ document store
\* A file is created or rewritten, between two passes; the writer may set
\* any modification time.
WriteFile(p, c, m) ==
    /\ UNCHANGED query_vars
    /\ pc = "idle"
    /\ writes < MaxWrites
    /\ now < MaxPasses
    /\ fs[p] # [content |-> c, mtime |-> m]
    /\ fs' = [fs EXCEPT ![p] = [content |-> c, mtime |-> m]]
    /\ writes' = writes + 1
    /\ edited' = edited \cup {p}
    /\ UNCHANGED <<faults, index_metadata, metadata_file, chroma_vars, pass_vars, pc,
                   i, outcome, last_search, id_history>>

\* A file is removed, between two passes.
RemoveFile(p) ==
    /\ UNCHANGED query_vars
    /\ pc = "idle"
    /\ writes < MaxWrites
    /\ now < MaxPasses
    /\ Exists(fs, p)
    /\ fs' = [fs EXCEPT ![p] = Absent]
    /\ writes' = writes + 1
    /\ edited' = edited \cup {p}
    /\ UNCHANGED <<faults, index_metadata, metadata_file, chroma_vars, pass_vars, pc,
                   i, outcome, last_search, id_history>>

\* The pipeline's operations and the changes of the document store.
Next ==
    \/ \E incremental \in BOOLEAN, clear_existing \in BOOLEAN :
           IndexAllDocuments(incremental, clear_existing)
    \/ \E p \in Paths : ReindexFile(p)
    \/ DeleteCollection
    \/ CreateCollection
    \/ AddBatch
    \/ SaveIndexMetadata
    \/ \E p \in Paths, c \in Contents, m \in Mtimes : WriteFile(p, c, m)
    \/ \E p \in Paths : RemoveFile(p)

Spec == Init /\ [][Next]_vars

\* The same with the failures a pass can meet.
NextFaults ==
    \/ Next
    \/ AddBatchFails
    \/ SaveIndexMetadataFails
    \/ CrashAndRestart

SpecFaults == Init /\ [][NextFaults]_vars

\* The same with a query side that searches while a pass is in progress.
NextConcurrent ==
    \/ Next
    \/ Search

SpecConcurrent == Init /\ [][NextConcurrent]_vars

\* --------------------------------------------------------------- query text
\* A query is its lower-cased text as a sequence of tokens: the tokens are
\* separated by white space, except that "," (a punctuation mark) is written
\* right after the token before it.
Vocabulary ==
    {"compare", "hostel", "library", "policy", "and", ",", "fee", "b.tech",
     "m.tech", "structures", "hours", "summarize", "brief", "deadline",
     "semester", "one"}

\* Longest query enumerated token by token.
MaxQueryLen == 2

\* The sequences over S of length at most n.
BoundedSeq(S, n) == UNION {[1..k -> S] : k \in 0..n}

\* "Compare hostel policy and library policy", "compare B.Tech and M.Tech fee
\* structures", "library hours", and the first with a comma for the "and".
ScenarioQueries ==
    {<<"compare", "hostel", "policy", "and", "library", "policy">>,
     <<"compare", "b.tech", "and", "m.tech", "fee", "structures">>,
     <<"library", "hours">>,
     <<"compare", "hostel", "policy", ",", "library", "policy">>}

Queries == BoundedSeq(Vocabulary, MaxQueryLen) \cup ScenarioQueries

\* The tokens of the vocabulary with a keyword as a proper part.
Inside == {<<"structures", "structure">>}

\* sub in tok
Contains(tok, sub) == tok = sub \/ <<tok, sub>> \in Inside

\* sub in text
TextContains(q, sub) == \E k \in 1..Len(q) : Contains(q[k], sub)

\* One alternative of an intent pattern: keywords to be found in this order,
\* with anything between them (".*") or in adjacent tokens (a space).
Word(k) == [words |-> <<k>>, adjacent |-> FALSE]
Then(ks) == [words |-> ks, adjacent |-> FALSE]
Phrase(ks) == [words |-> ks, adjacent |-> TRUE]

\* self.intent_patterns
intent_patterns ==
    [policy_search |->
        {Word("policy"), Word("policies"), Word("regulation"),
         Word("regulations"), Word("rule"), Word("rules"),
         Then(<<"what", "policy">>), Then(<<"search", "policy">>),
         Then(<<"find", "policy">>)},
     fee_query |->
        {Word("fee"), Word("fees"), Word("payment"), Word("tuition"),
         Word("cost"), Word("price"), Phrase(<<"how", "much">>),
         Then(<<"what", "fee">>), Phrase(<<"fee", "structure">>)},
     calendar_query |->
        {Word("calendar"), Word("schedule"), Word("date"), Word("dates"),
         Word("deadline"), Word("when"), Phrase(<<"academic", "calendar">>),
         Then(<<"exam", "date">>), Then(<<"registration", "date">>)},
     policy_summary |->
        {Word("summarize"), Word("summary"), Word("overview"), Word("brief"),
         Word("tl;dr"), Word("tldr"), Then(<<"what", "policy", "about">>),
         Then(<<"explain", "policy">>)},
     policy_comparison |->
        {Word("compare"), Word("comparison"), Word("difference"),
         Word("differences"), Word("vs"), Word("versus"),
         Then(<<"which", "better">>),
         Then(<<"what", "difference", "between">>)}]

\* re.search(pattern, query_lower) for one alternative of a pattern.
ReSearch(alt, q) ==
    \E f \in [1..Len(alt.words) -> 1..Len(q)] :
        /\ \A k \in 1..Len(alt.words) : Contains(q[f[k]], alt.words[k])
        /\ \A k \in 1..(Len(alt.words) - 1) :
               IF alt.adjacent THEN f[k + 1] = f[k] + 1 ELSE f[k + 1] > f[k]

\* any(re.search(pattern, query_lower) for pattern in intent_patterns[intent])
MatchesIntent(q, intent) ==
    \E alt \in intent_patterns[intent] : ReSearch(alt, q)

\* ------------------------------------------------------------- query router
\* Python's None, and every value that is false like it, among token
\* sequences.
None == <<>>

\* Tokens made of word characters only.
IsWord(t) == t \notin {",", "b.tech", "m.tech"}

\* The token has word characters at its end.
HasWordTail(t) == t # ","

\* The word characters a token ends with.
WordTail(t) == IF t \in {"b.tech", "m.tech"} THEN "tech" ELSE t

\* Where a match of (\w+(?:\s+\w+)*)\s+(?:policy|policies) that starts in
\* token s can end: at a "policy" that only words and white space separate
\* from the start.
PolicyEnds(q, s) ==
    {e \in (s + 1)..Len(q) :
        /\ q[e] \in {"policy", "policies"}
        /\ \A j \in (s + 1)..e : IsWord(q[j])}

\* re.findall(r'(\w+(?:\s+\w+)*)\s+(?:policy|policies)', query_lower) from
\* token pos on: the leftmost start, the longest match from it, then on from
\* the end of that match.
RECURSIVE FindPolicies(_, _)
FindPolicies(q, pos) ==
    LET starts == {s \in pos..Len(q) :
                      HasWordTail(q[s]) /\ PolicyEnds(q, s) # {}}
    IN  IF starts = {} THEN <<>>
        ELSE LET s == CHOOSE x \in starts : \A y \in starts : x <= y
                 e == CHOOSE x \in PolicyEnds(q, s) :
                          \A y \in PolicyEnds(q, s) : x >= y
             IN  <<[k \in 1..(e - s) |->
                       IF k = 1 THEN WordTail(q[s]) ELSE q[s + k - 1]]>>
                 \o FindPolicies(q, e + 1)

\* The first character of a token.
FirstLetter(t) ==
    CASE t \in {"compare"} -> "c"
      [] t \in {"hostel", "hours"} -> "h"
      [] t \in {"library"} -> "l"
      [] t \in {"policy"} -> "p"
      [] t \in {"and"} -> "a"
      [] t \in {"fee"} -> "f"
      [] t \in {"b.tech", "brief"} -> "b"
      [] t \in {"m.tech"} -> "m"
      [] t \in {"structures", "summarize", "semester"} -> "s"
      [] t \in {"deadline"} -> "d"
      [] t \in {"one"} -> "o"
      [] OTHER -> ","

\* Where re.search(r'(?:summarize|summary|overview).*?(?:of|for)?\s*
\* ([\w\s]+?)(?:\s+policy)?', query_lower) matches: a keyword, and after it
\* the token whose first character becomes group 1 (each part of the
\* pattern takes as little as it can).
SummaryMatches(q) ==
    {m \in (1..Len(q)) \X (1..Len(q)) :
        /\ \E w \in {"summarize", "summary", "overview"} :
               Contains(q[m[1]], w)
        /\ m[2] > m[1]
        /\ q[m[2]] # ","
        /\ \A j \in (m[1] + 1)..(m[2] - 1) : q[j] = ","}

\* policy_match.group(1).strip() of the leftmost match.
SummaryName(q) ==
    LET m == CHOOSE x \in SummaryMatches(q) :
                 \A y \in SummaryMatches(q) : x[1] <= y[1]
    IN  <<FirstLetter(q[m[2]])>>

\* The first element of a list that is in the text, or None.
RECURSIVE FirstIn(_, _)
FirstIn(list, q) ==
    IF list = <<>> THEN None
    ELSE IF TextContains(q, Head(list)) THEN <<Head(list)>>
    ELSE FirstIn(Tail(list), q)

\* program_match of classify_intent: the leftmost token the pattern
\* (b\.?tech|m\.?tech|phd|mba|program) matches in, or None.
ProgramMatch(q) ==
    LET words == {"b.tech", "btech", "m.tech", "mtech", "phd", "mba",
                  "program"}
        at == {k \in 1..Len(q) : \E w \in words : Contains(q[k], w)}
    IN  IF at = {} THEN None
        ELSE <<q[CHOOSE k \in at : \A j \in at : k <= j]>>

\* semester_match of classify_intent: group 1 of
\* semester\s+(\d+|one|two|three|four|first|second|third|fourth), or None.
SemesterMatch(q) ==
    LET numbers == {"one", "two", "three", "four", "first", "second",
                    "third", "fourth"}
        at == {k \in 1..(Len(q) - 1) :
                  Contains(q[k], "semester") /\ q[k + 1] \in numbers}
    IN  IF at = {} THEN None
        ELSE <<q[(CHOOSE k \in at : \A j \in at : k <= j) + 1]>>

\* date_match of classify_intent: the leftmost match of
\* (\d{4}[-/]\d{4}|\d{4}), or None.
DateMatch(q) ==
    LET at == {k \in 1..Len(q) : q[k] \in {"2024", "2024-2025"}}
    IN  IF at = {} THEN None
        ELSE <<q[CHOOSE k \in at : \A j \in at : k <= j]>>

\* The parameters dictionary, by the keys it has; a key it does not have
\* reads as None.
NoParameters ==
    [keys |-> {}, policy1 |-> None, policy2 |-> None, policy_name |-> None,
     program |-> None, semester |-> None, event_type |-> None,
     date_range |-> None, query |-> None, policy_type |-> None]

\* classify_intent
classify_intent(q) ==
    LET policies == FindPolicies(q, 1)
    IN  IF MatchesIntent(q, "policy_comparison") /\ Len(policies) >= 2
        THEN [intent |-> "policy_comparison",
              parameters |-> [NoParameters EXCEPT
                                 !.keys = {"policy1", "policy2"},
                                 !.policy1 = policies[1],
                                 !.policy2 = policies[2]]]
        ELSE IF MatchesIntent(q, "policy_summary") /\ SummaryMatches(q) # {}
        THEN [intent |-> "policy_summary",
              parameters |-> [NoParameters EXCEPT
                                 !.keys = {"policy_name"},
                                 !.policy_name = SummaryName(q)]]
        ELSE IF MatchesIntent(q, "fee_query")
        THEN [intent |-> "fee_query",
              parameters |-> [NoParameters EXCEPT
                                 !.keys = {"program", "semester"},
                                 !.program = ProgramMatch(q),
                                 !.semester = SemesterMatch(q)]]
        ELSE IF MatchesIntent(q, "calendar_query")
        THEN [intent |-> "calendar_query",
              parameters |-> [NoParameters EXCEPT
                                 !.keys = {"event_type", "date_range"},
                                 !.event_type =
                                     FirstIn(<<"registration", "examination",
                                               "exam", "holiday", "vacation",
                                               "deadline">>, q),
                                 !.date_range = DateMatch(q)]]
        ELSE IF MatchesIntent(q, "policy_search")
        THEN [intent |-> "policy_search",
              parameters |-> [NoParameters EXCEPT
                                 !.keys = {"query", "policy_type"},
                                 !.query = q,
                                 !.policy_type =
                                     FirstIn(<<"academic", "hostel",
                                               "library", "examination",
                                               "admission">>, q)]]
        ELSE [intent |-> "general", parameters |-> NoParameters]

\* ------------------------------------------------------------ vector search
\* config.TOP_K_RESULTS
TOP_K_RESULTS == 5

\* top_k=None and similarity_threshold=None in a call of search.
NoTopK == 0
NoThreshold == -1

\* Cosine distances, in tenths.
Distances == {5, 8}

\* The orders a set of ids can be listed in.
RECURSIVE Orders(_)
Orders(ids) ==
    IF ids = {} THEN {<<>>}
    ELSE UNION {{<<x>> \o o : o \in Orders(ids \ {x})} : x \in ids}

\* What the embedding model and the cross-encoder make of one query text and
\* the stored chunks: the distance of every chunk, the order collection.query
\* lists the chunks in (nearest first, equal distances in either order), and
\* the order of the cross-encoder's scores (best first).
Geometries(docs) ==
    LET ranked == {x \in [distance : [DOMAIN docs -> Distances],
                          ranking : Orders(DOMAIN docs)] :
                      \A a, b \in 1..Len(x.ranking) :
                          a < b => x.distance[x.ranking[a]]
                                       <= x.distance[x.ranking[b]]}
    IN  {[distance |-> x.distance, ranking |-> x.ranking,
          preference |-> o] : x \in ranked, o \in Orders(DOMAIN docs)}

\* The first n elements of a list: list[:n].
Take(list, n) == SubSeq(list, 1, Min(n, Len(list)))

\* The elements of a list that are in S, in the order of the list.
RECURSIVE Keep(_, _)
Keep(list, S) ==
    IF list = <<>> THEN <<>>
    ELSE IF Head(list) \in S THEN <<Head(list)>> \o Keep(Tail(list), S)
    ELSE Keep(Tail(list), S)

\* The elements of a list, as a set.
Range(list) == {list[k] : k \in 1..Len(list)}

\* collection.query(query_texts=[query], n_results=n, where=where): the ids
\* of the n nearest chunks among those of the category.
CollectionQuery(docs, g, n, category_filter) ==
    Take(Keep(g.ranking,
              {id \in DOMAIN docs :
                  category_filter # ""
                      => docs[id].metadata.category = category_filter}),
         n)

\* A search that applies the threshold to the candidates before it ranks
\* and truncates them; VectorStore.search does not work this way.
search_filter_first(docs, g, rr, top_k, category_filter, similarity_threshold, use_reranking) ==
    LET k == IF top_k = NoTopK THEN TOP_K_RESULTS ELSE top_k
        n_results == IF use_reranking /\ rr THEN k * 2 ELSE k
        ids == CollectionQuery(docs, g, n_results, category_filter)
        kept == IF similarity_threshold = NoThreshold THEN ids
                ELSE Keep(ids, {id \in DOMAIN docs :
                                   10 - g.distance[id]
                                       >= similarity_threshold})
    IN  IF use_reranking /\ rr /\ Len(ids) > k
        THEN Take(Keep(g.preference, Range(kept)), k)
        ELSE Take(kept, k)

\* VectorStore.search: the ids of the result, in order.
search(docs, g, rr, top_k, category_filter, similarity_threshold, use_reranking) ==
    LET k == IF top_k = NoTopK THEN TOP_K_RESULTS ELSE top_k
        n_results == IF use_reranking /\ rr THEN k * 2 ELSE k
        ids == CollectionQuery(docs, g, n_results, category_filter)
        ranked == IF use_reranking /\ rr /\ Len(ids) > k
                  THEN Take(Keep(g.preference, Range(ids)), k)
                  ELSE Take(ids, k)
    IN  IF similarity_threshold = NoThreshold THEN ranked
        ELSE Keep(ranked,
                  {id \in DOMAIN docs :
                      10 - g.distance[id] >= similarity_threshold})

\* VectorStore.hybrid_search
hybrid_search(docs, g, rr, top_k, category_filter) ==
    LET k == IF top_k = NoTopK THEN TOP_K_RESULTS ELSE top_k
        semantic_results ==
            search(docs, g, rr, k * 2, category_filter, NoThreshold, FALSE)
    IN  IF rr
        THEN search(docs, g, rr, k, category_filter, NoThreshold, TRUE)
        ELSE semantic_results

\* --------------------------------------------------------------- query side
\* Largest top_k a caller passes.
MaxTopK == 2

\* The values of top_k, category_filter and similarity_threshold (in tenths)
\* a caller passes.
TopKs == {NoTopK} \cup (1..MaxTopK)
CategoryFilters == {"", "policies"}
Thresholds == {NoThreshold, 5, 9}

\* The state index_all_documents() leaves behind when it has run once, to
\* its end, over any contents of the data directory, and the query side is
\* constructed after it, with or without a re-ranker.
InitIndexed ==
    /\ fs \in [Paths -> InitialFileStates]
    /\ LET r == Walk(1, [chunks |-> <<>>, metadata |-> <<>>,
                         processed |-> {}, skipped |-> {},
                         meta |-> EmptyMetadata], TRUE, 1)
           n == Len(r.chunks)
           final == IF n = 0 THEN r.meta
                    ELSE [r.meta EXCEPT !.last_indexed = 1,
                                        !.total_chunks = n]
       IN  /\ all_chunks = r.chunks
           /\ all_metadata = r.metadata
           /\ processed_files = r.processed
           /\ skipped_files = r.skipped
           /\ index_metadata = final
           /\ metadata_file = IF n = 0
                              THEN [state |-> "missing",
                                    data |-> EmptyMetadata]
                              ELSE [state |-> "ok", data |-> final]
           /\ db = [exists |-> TRUE, uid |-> 1,
                    docs |-> [id \in 0..(n - 1) |->
                                 [document |-> r.chunks[id + 1],
                                  metadata |-> r.metadata[id + 1]]]]
           /\ id_history = [before |-> {}, since |-> 0..(n - 1)]
           /\ i = ((n + BatchSize - 1) \div BatchSize) * BatchSize
    /\ op = [kind |-> "index_all", incremental |-> TRUE,
             clear_existing |-> FALSE, path |-> ""]
    /\ prev = [docs |-> <<>>, indexed_files |-> [p \in Paths |-> NoRecord],
               indexed |-> {}, clean |-> FALSE, edited |-> {}]
    /\ pipeline_handle = 1
    /\ query_handle = 1
    /\ pc = "idle"
    /\ outcome = "ok"
    /\ now = 1
    /\ writes = 0
    /\ faults = 0
    /\ edited = {}
    /\ last_search = NoSearch
    /\ reranker \in BOOLEAN
    /\ request = NoRequest
    /\ qpc = "idle"
    /\ response = NoResponse
    /\ searches = <<>>
    /\ events = <<>>
    /\ llm_calls = <<>>

\* The variables of the indexing side.
index_vars == <<fs, index_metadata, metadata_file, db, pipeline_handle,
                query_handle, pc, op, all_chunks, all_metadata,
                processed_files, skipped_files, i, now, writes, faults,
                outcome, last_search, edited, prev, id_history>>

\* A caller calls VectorStore.search.
SearchCall(top_k, category_filter, similarity_threshold, use_reranking) ==
    /\ qpc = "idle"
    /\ \E g \in Geometries(db.docs) :
           /\ request' = [kind |-> "search", geometry |-> g,
                          top_k |-> top_k,
                          category_filter |-> category_filter,
                          similarity_threshold |-> similarity_threshold,
                          use_reranking |-> use_reranking]
           /\ response' =
                  [keys |-> {"documents", "metadatas", "distances", "ids"},
                   ids |-> search(db.docs, g, reranker, top_k,
                                  category_filter, similarity_threshold,
                                  use_reranking)]
    /\ qpc' = "done"
    /\ UNCHANGED <<index_vars, reranker, searches, events, llm_calls>>

\* A caller calls VectorStore.hybrid_search.
HybridSearchCall(top_k, category_filter) ==
    /\ qpc = "idle"
    /\ \E g \in Geometries(db.docs) :
           /\ request' = [kind |-> "hybrid_search", geometry |-> g,
                          top_k |-> top_k,
                          category_filter |-> category_filter,
                          similarity_threshold |-> NoThreshold,
                          use_reranking |-> TRUE]
           /\ response' =
                  [keys |-> {"documents", "metadatas", "distances", "ids"},
                   ids |-> hybrid_search(db.docs, g, reranker, top_k,
                                         category_filter)]
    /\ qpc' = "done"
    /\ UNCHANGED <<index_vars, reranker, searches, events, llm_calls>>

\* The calls of the vector store's two searches.
NextSearch ==
    \/ \E top_k \in TopKs, category_filter \in CategoryFilters,
          similarity_threshold \in Thresholds, use_reranking \in BOOLEAN :
           SearchCall(top_k, category_filter, similarity_threshold,
                      use_reranking)
    \/ \E top_k \in TopKs, category_filter \in CategoryFilters :
           HybridSearchCall(top_k, category_filter)

SpecSearch == InitIndexed /\ [][NextSearch]_vars

\* --------------------------------------------------------------- RAG engine
\* The words of a chunk's text (split on white space, lower-cased).
ChunkWords(document) ==
    CASE document = <<2, 0>> -> {"the", "hostel", "fee"}
      [] document = <<3, 0>> -> {"library", "hours", "of", "closed", "on",
                                 "sunday"}
      [] OTHER -> {"the", "and"}

\* len(chunk_text): the first chunk of a file with two chunks has
\* CHUNK_SIZE characters, the last chunk of a file is short.
ChunkLength(document) == IF document = <<3, 0>> THEN 500 ELSE 40

\* chunk_text[:200] + "..." if len(chunk_text) > 200 else chunk_text
Preview(document) ==
    [chunk |-> document, truncated |-> ChunkLength(document) > 200]

\* The words of a preview: those of the chunk, or those in its first 200
\* characters, the last of them cut and with the dots appended.
PreviewWords(preview) ==
    IF preview.truncated
    THEN {"library", "hours", "of", "clo..."}
    ELSE ChunkWords(preview.chunk)

\* What the Completion Service can answer, as the words of the answer.
Answers == {{"the", "hostel", "fee"}, {"library", "closed", "on", "sunday"},
            {"closed", "on", "sunday"}, {}}

\* A text of the response: its kind and, for a generated answer, its words.
Text(kind, words) == [kind |-> kind, words |-> words]
NoText == Text("None", {})

\* An overlap test that asks for more than half of the answer's words;
\* verify_citation asks for more than a fifth.
overlap_majority(c, a) ==
    IF c = {} THEN FALSE
    ELSE IF a = {} THEN FALSE
    ELSE 2 * Cardinality(c \cap a) > Cardinality(a)

\* verify_citation, from the two word sets without the common words on:
\* overlap = len(chunk_words & answer_words) / len(answer_words) > 0.2
overlap(c, a) ==
    IF c = {} THEN FALSE
    ELSE IF a = {} THEN FALSE
    ELSE 5 * Cardinality(c \cap a) > Cardinality(a)

\* verify_citation, on the word sets of the two texts.
verify_citation(chunk_words, answer_words) ==
    LET common_words == {"the", "a", "an", "and", "or", "but", "in", "on",
                         "at", "to", "for", "of", "with", "by"}
    IN  overlap(chunk_words \ common_words, answer_words \ common_words)

\* ------------------------------------------------------ texts in characters
\* The longest text whose characters are told apart.
MaxTextLen == 8

\* The characters of those texts: a letter that is a common word, a capital
\* letter and the blank.
Characters == {"a", "B", " "}

\* str.lower, character by character.
Lower(text) == [k \in 1..Len(text) |-> IF text[k] = "B" THEN "b" ELSE text[k]]

\* str.split: the maximal runs of characters other than white space, from
\* the k-th character on, with word the run that has begun.
RECURSIVE SplitFrom(_, _, _)
SplitFrom(text, k, word) ==
    IF k > Len(text) THEN (IF word = <<>> THEN <<>> ELSE <<word>>)
    ELSE IF text[k] = " "
    THEN (IF word = <<>> THEN <<>> ELSE <<word>>) \o SplitFrom(text, k + 1, <<>>)
    ELSE SplitFrom(text, k + 1, Append(word, text[k]))

Split(text) == SplitFrom(text, 1, <<>>)

\* The common words of verify_citation that these characters can spell.
CommonWordsSpelled == {<<"a">>}

\* verify_citation on two texts given by their characters.
verify_citation_text(chunk_text, answer) ==
    LET chunk_words == Range(Split(Lower(chunk_text)))
        answer_words == Range(Split(Lower(answer)))
    IN  overlap(chunk_words \ CommonWordsSpelled,
                answer_words \ CommonWordsSpelled)

\* extract_citation
extract_citation(docs, id) ==
    [file_path |-> docs[id].metadata.file_path,
     category |-> docs[id].metadata.category,
     chunk_id |-> docs[id].metadata.chunk_id,
     text_preview |-> Preview(docs[id].document)]

\* create_citation_dict: extract_citation with the rank and the similarity
\* (1 - distance, in tenths).
create_citation_dict(docs, g, ids) ==
    [k \in 1..Len(ids) |->
        [file_path |-> docs[ids[k]].metadata.file_path,
         category |-> docs[ids[k]].metadata.category,
         chunk_id |-> docs[ids[k]].metadata.chunk_id,
         text_preview |-> Preview(docs[ids[k]].document),
         rank |-> k,
         similarity |-> 10 - g.distance[ids[k]]]]

\* _build_context: the citations of the chunks put in the context. With
\* chunks of CHUNK_SIZE characters and at most TOP_K_RESULTS of them, every
\* chunk fits in max_length, and the context is never empty.
build_context(docs, g, ids) == create_citation_dict(docs, g, ids)

\* _preprocess_query: the expansions appended to the query.
preprocess_query(q) ==
    q \o (IF TextContains(q, "rgipt")
          THEN <<"rajiv", "gandhi", "institute", "of", "petroleum",
                 "technology">>
          ELSE <<>>)
      \o (IF TextContains(q, "fee")
          THEN <<"fee", "structure", "fees", "payment">> ELSE <<>>)
      \o (IF TextContains(q, "policy")
          THEN <<"policy", "policies", "regulation", "regulations">>
          ELSE <<>>)

\* A dictionary with none of the keys of a response.
BlankResponse ==
    [keys |-> {}, intent |-> "", parameters |-> NoParameters,
     used_function |-> FALSE, function |-> "", answer |-> NoText,
     result |-> NoText, citations |-> <<>>, is_grounded |-> FALSE,
     error |-> "", retrieved_docs |-> 0]

\* _generate_answer when the Completion Service answers.
generate_answer(answer, citations) ==
    [BlankResponse EXCEPT
        !.keys = {"answer", "citations", "is_grounded", "model",
                  "tokens_used"},
        !.answer = Text("generated", answer),
        !.citations = citations,
        !.is_grounded =
            IF citations = <<>> THEN TRUE
            ELSE \E k \in 1..Len(citations) :
                     verify_citation(PreviewWords(citations[k].text_preview),
                                     answer)]

\* _generate_answer when the call of the Completion Service raises.
generate_answer_error ==
    [BlankResponse EXCEPT
        !.keys = {"answer", "citations", "is_grounded", "error"},
        !.answer = Text("apology", {}),
        !.error = "Error generating answer"]

\* A not-found dictionary that claims to be grounded; query does not
\* return it.
query_not_found_grounded ==
    [BlankResponse EXCEPT
        !.keys = {"answer", "citations", "is_grounded", "retrieved_docs"},
        !.answer = Text("not found", {}),
        !.is_grounded = TRUE]

\* query when the search returns no document.
query_not_found ==
    [BlankResponse EXCEPT
        !.keys = {"answer", "citations", "is_grounded", "retrieved_docs"},
        !.answer = Text("not found", {})]

\* query after _generate_answer: {**answer_result, "retrieved_docs": ...,
\* "query": question}.
query_result(answer_result, retrieved_docs) ==
    [answer_result EXCEPT !.keys = @ \cup {"retrieved_docs", "query"},
                          !.retrieved_docs = retrieved_docs]

\* One call of VectorStore.search, for the history: its arguments and the
\* number of documents it returned.
SearchRecord(text, top_k, category_filter, similarity_threshold, ids) ==
    [query |-> text, top_k |-> top_k, category_filter |-> category_filter,
     similarity_threshold |-> similarity_threshold, found |-> Len(ids)]

\* The questions put to the RAG engine directly.
Questions == ScenarioQueries

\* RAGEngine.query up to the call of the Completion Service; without a
\* retrieved document it returns here.
Query(question, top_k, category_filter, similarity_threshold) ==
    /\ qpc = "idle"
    /\ \E g \in Geometries(db.docs) :
           LET ids == search(db.docs, g, reranker, top_k, category_filter,
                             similarity_threshold, TRUE)
           IN  /\ searches' =
                      <<SearchRecord(preprocess_query(question), top_k,
                                     category_filter, similarity_threshold,
                                     ids)>>
               /\ request' =
                      [kind |-> "query", question |-> question,
                       caller |-> "query", function |-> "",
                       param_keys |-> {},
                       citations |-> build_context(db.docs, g, ids),
                       retrieved_docs |-> Len(ids)]
               /\ IF ids = <<>>
                  THEN qpc' = "done" /\ response' = query_not_found
                  ELSE qpc' = "generate" /\ response' = NoResponse
    /\ UNCHANGED <<index_vars, reranker, events, llm_calls>>

\* -------------------------------------------------------- function handlers
\* What a handler has done when it reaches the Completion Service or
\* returns without it: the searches it made, whether it has returned, the
\* dictionary it returned or, when it has not, who waits for the answer,
\* with which citations.
Returned(log, dict) ==
    [searches |-> log, final |-> TRUE, response |-> dict, caller |-> "",
     function |-> "", param_keys |-> {}, citations |-> <<>>,
     retrieved_docs |-> 0]
Waiting(log, caller, function, param_keys, citations, retrieved_docs) ==
    [searches |-> log, final |-> FALSE, response |-> BlankResponse,
     caller |-> caller, function |-> function, param_keys |-> param_keys,
     citations |-> citations, retrieved_docs |-> retrieved_docs]

\* The dictionary a handler returns when its own search finds nothing.
handler_not_found(function, param_keys) ==
    [BlankResponse EXCEPT
        !.keys = {"function", "result", "answer", "citations"}
                     \cup param_keys,
        !.function = function,
        !.answer = Text("handler not found", {})]

\* The dictionary search_policies, get_fee_structure and
\* get_academic_calendar make of the result of RAGEngine.query.
handler_result(function, param_keys, answer_result) ==
    [BlankResponse EXCEPT
        !.keys = {"function", "result", "citations", "is_grounded"}
                     \cup param_keys,
        !.function = function,
        !.result = answer_result.answer,
        !.citations = answer_result.citations,
        !.is_grounded = answer_result.is_grounded]

\* The dictionary summarize_policy and compare_policies make of the result
\* of _generate_answer: the citations are the handler's own.
handler_own_result(function, param_keys, answer_result, citations) ==
    [BlankResponse EXCEPT
        !.keys = {"function", "result", "citations", "is_grounded"}
                     \cup param_keys,
        !.function = function,
        !.result = answer_result.answer,
        !.citations = citations,
        !.is_grounded = answer_result.is_grounded]

\* A handler's search, and after it RAGEngine.query(text, category_filter)
\* when the search found something; g is the geometry of the handler's
\* text and g2 that of the text RAGEngine.query makes of it.
search_then_query(docs, g, g2, rr, function, param_keys, text, first_filter, query_filter) ==
    LET first == search(docs, g, rr, 5, first_filter, NoThreshold, TRUE)
        ids == search(docs, g2, rr, NoTopK, query_filter, NoThreshold, TRUE)
        log1 == <<SearchRecord(text, 5, first_filter, NoThreshold, first)>>
        log2 == log1 \o <<SearchRecord(preprocess_query(text), NoTopK,
                                       query_filter, NoThreshold, ids)>>
    IN  IF first = <<>>
        THEN Returned(log1, handler_not_found(function, {}))
        ELSE IF ids = <<>>
        THEN Returned(log2, handler_result(function, param_keys,
                                           query_not_found))
        ELSE Waiting(log2, "query", function, param_keys,
                     build_context(docs, g2, ids), Len(ids))

\* search_policies
search_policies(docs, g, g2, rr, query, policy_type) ==
    LET category_filter == IF policy_type = None THEN "policies" ELSE ""
        enhanced_query ==
            (IF ~TextContains(query, "policy") THEN <<"policy">> \o query
             ELSE query)
            \o (IF policy_type # None THEN policy_type \o <<"policy">>
                ELSE <<>>)
    IN  search_then_query(docs, g, g2, rr, "search_policies",
                          {"query", "policy_type"}, enhanced_query,
                          category_filter, "policies")

\* get_fee_structure
get_fee_structure(docs, g, g2, rr, program, semester) ==
    LET query == <<"fee", "structure", "fees", "payment">>
                 \o (IF program # None THEN program ELSE <<>>)
                 \o (IF semester # None THEN <<"semester">> \o semester
                     ELSE <<>>)
    IN  search_then_query(docs, g, g2, rr, "get_fee_structure",
                          {"program", "semester"}, query, "", "")

\* get_academic_calendar
get_academic_calendar(docs, g, g2, rr, event_type, date_range) ==
    LET query == <<"academic", "calendar", "schedule", "dates">>
                 \o (IF event_type # None THEN event_type ELSE <<>>)
                 \o (IF date_range # None THEN date_range ELSE <<>>)
    IN  search_then_query(docs, g, g2, rr, "get_academic_calendar",
                          {"event_type", "date_range"}, query, "", "")

\* The citations summarize_policy and compare_policies make themselves.
own_citations(docs, ids) ==
    [k \in 1..Len(ids) |-> extract_citation(docs, ids[k])]

\* summarize_policy
summarize_policy(docs, g, rr, policy_name) ==
    LET query == policy_name \o <<"policy", "summary", "overview">>
        ids == search(docs, g, rr, 10, "policies", NoThreshold, TRUE)
        log == <<SearchRecord(query, 10, "policies", NoThreshold, ids)>>
    IN  IF ids = <<>>
        THEN Returned(log, handler_not_found("summarize_policy",
                                             {"policy_name"}))
        ELSE Waiting(log, "generate", "summarize_policy", {"policy_name"},
                     own_citations(docs, ids), Len(ids))

\* compare_policies
compare_policies(docs, g, g2, rr, policy1, policy2) ==
    LET ids1 == search(docs, g, rr, 5, "policies", NoThreshold, TRUE)
        ids2 == search(docs, g2, rr, 5, "policies", NoThreshold, TRUE)
        log == <<SearchRecord(policy1 \o <<"policy">>, 5, "policies",
                              NoThreshold, ids1),
                 SearchRecord(policy2 \o <<"policy">>, 5, "policies",
                              NoThreshold, ids2)>>
    IN  IF ids1 = <<>> \/ ids2 = <<>>
        THEN Returned(log, handler_not_found("compare_policies",
                                             {"policy1", "policy2"}))
        ELSE Waiting(log, "generate", "compare_policies",
                     {"policy1", "policy2"},
                     own_citations(docs, ids1) \o own_citations(docs, ids2),
                     Len(ids1) + Len(ids2))

\* route, the general case: RAGEngine.query(query).
general_query(docs, g, rr, query) ==
    LET ids == search(docs, g, rr, NoTopK, "", NoThreshold, TRUE)
        log == <<SearchRecord(preprocess_query(query), NoTopK, "",
                              NoThreshold, ids)>>
    IN  IF ids = <<>>
        THEN Returned(log, query_not_found)
        ELSE Waiting(log, "query", "", {}, build_context(docs, g, ids),
                     Len(ids))

\* ------------------------------------------------------------------- route
\* The geometries that differ in what a search with top_k of 5 or more and
\* no threshold returns from a collection of fewer than 5 chunks: those that
\* differ in the ranking.
RouteGeometries(docs) ==
    {[distance |-> [id \in DOMAIN docs |-> 5], ranking |-> o,
      preference |-> o] : o \in Orders(DOMAIN docs)}

\* route: the handler of the intent, up to its return or its call of the
\* Completion Service.
dispatch(docs, g, g2, rr, query, c) ==
    LET parameters == c.parameters
    IN  CASE c.intent = "policy_search" ->
                 search_policies(docs, g, g2, rr,
                                 IF "query" \in parameters.keys
                                 THEN parameters.query ELSE query,
                                 parameters.policy_type)
          [] c.intent = "fee_query" ->
                 get_fee_structure(docs, g, g2, rr, parameters.program,
                                   parameters.semester)
          [] c.intent = "calendar_query" ->
                 get_academic_calendar(docs, g, g2, rr,
                                       parameters.event_type,
                                       parameters.date_range)
          [] c.intent = "policy_summary" ->
                 summarize_policy(docs, g, rr,
                                  IF "policy_name" \in parameters.keys
                                  THEN parameters.policy_name ELSE query)
          [] c.intent = "policy_comparison" ->
                 compare_policies(docs, g, g2, rr, parameters.policy1,
                                  parameters.policy2)
          [] OTHER -> general_query(docs, g, rr, query)

\* route: the response made of what the handler returned. A function
\* handler's dictionary is merged in whole; of the result of RAGEngine.query
\* the general case takes the answer, the citations and is_grounded.
route_response(intent, parameters, result) ==
    IF intent = "general"
    THEN [BlankResponse EXCEPT
             !.keys = {"intent", "parameters", "used_function", "answer",
                       "citations", "is_grounded"},
             !.intent = intent,
             !.parameters = parameters,
             !.answer = result.answer,
             !.citations = result.citations,
             !.is_grounded = result.is_grounded]
    ELSE [result EXCEPT
             !.keys = @ \cup {"intent", "parameters", "used_function"},
             !.intent = intent,
             !.parameters = parameters,
             !.used_function = TRUE]

\* What the one who waits for the Completion Service makes of
\* _generate_answer's result.
finish(req, answer_result) ==
    LET result ==
            IF req.caller = "query"
            THEN query_result(answer_result, req.retrieved_docs)
            ELSE answer_result
        handled ==
            IF req.function = "" THEN result
            ELSE IF req.caller = "query"
            THEN handler_result(req.function, req.param_keys, result)
            ELSE handler_own_result(req.function, req.param_keys, result,
                                    req.citations)
    IN  IF req.kind = "route"
        THEN route_response(req.intent, req.parameters, handled)
        ELSE handled

\* QueryRouter.route: classify_intent.
Route(query) ==
    /\ qpc = "idle"
    /\ LET c == classify_intent(query)
       IN  request' = [kind |-> "route", question |-> query,
                       intent |-> c.intent, parameters |-> c.parameters,
                       caller |-> "", function |-> "", param_keys |-> {},
                       citations |-> <<>>, retrieved_docs |-> 0]
    /\ qpc' = "dispatch"
    /\ UNCHANGED <<index_vars, reranker, response, searches, events,
                   llm_calls>>

\* QueryRouter.route: the handler of the intent, up to its call of the
\* Completion Service; a handler that finds nothing returns here, and route
\* with it.
Dispatch ==
    /\ qpc = "dispatch"
    /\ \E g \in RouteGeometries(db.docs), g2 \in RouteGeometries(db.docs) :
           LET h == dispatch(db.docs, g, g2, reranker, request.question,
                             [intent |-> request.intent,
                              parameters |-> request.parameters])
           IN  /\ request.intent \in {"general", "calendar_query",
                                      "policy_summary"} => g2 = g
               /\ searches' = h.searches
               /\ request' = [request EXCEPT
                                 !.caller = h.caller,
                                 !.function = h.function,
                                 !.param_keys = h.param_keys,
                                 !.citations = h.citations,
                                 !.retrieved_docs = h.retrieved_docs]
               /\ IF h.final
                  THEN /\ qpc' = "done"
                       /\ response' =
                              route_response(request.intent,
                                             request.parameters, h.response)
                  ELSE /\ qpc' = "generate"
                       /\ response' = NoResponse
    /\ UNCHANGED <<index_vars, reranker, events, llm_calls>>

\* client.chat.completions.create returns an answer, and the one who called
\* _generate_answer returns.
CompletionReturns(answer) ==
    /\ qpc = "generate"
    /\ llm_calls' = Append(llm_calls, "ok")
    /\ response' = finish(request, generate_answer(answer, request.citations))
    /\ qpc' = "done"
    /\ UNCHANGED <<index_vars, reranker, request, searches, events>>

\* client.chat.completions.create raises.
CompletionFails ==
    /\ qpc = "generate"
    /\ llm_calls' = Append(llm_calls, "error")
    /\ response' = finish(request, generate_answer_error)
    /\ qpc' = "done"
    /\ UNCHANGED <<index_vars, reranker, request, searches, events>>

\* chat: the ChatResponse made of route's dictionary.
chat(result) ==
    [answer |-> IF "answer" \in result.keys /\ result.answer.kind # "None"
                THEN result.answer
                ELSE IF "result" \in result.keys THEN result.result
                ELSE Text("No answer generated", {}),
     citations |-> IF "citations" \in result.keys THEN result.citations
                   ELSE <<>>,
     intent |-> IF "intent" \in result.keys THEN result.intent ELSE "",
     used_function |-> IF "used_function" \in result.keys
                       THEN result.used_function ELSE FALSE,
     is_grounded |-> IF "is_grounded" \in result.keys
                     THEN result.is_grounded ELSE TRUE,
     retrieved_docs |-> IF "retrieved_docs" \in result.keys
                        THEN result.retrieved_docs ELSE 0]

\* The requests to the router, one at a time, and the Completion Service.
NextRoute ==
    \/ qpc = "idle" /\ \E query \in Queries : Route(query)
    \/ Dispatch
    \/ \E answer \in Answers : CompletionReturns(answer)
    \/ CompletionFails

SpecRoute == InitIndexed /\ [][NextRoute]_vars

\* ---------------------------------------------------------- add_documents
\* The longest lists a caller passes to add_documents.
MaxAddLen == 2

\* VectorStore.add_documents called with any two lists, up to the clearing
\* and the batch loop: without chunks or without metadata it returns, with
\* lists of different lengths it raises ValueError.
AddDocuments(chunks, metadata, clear_existing) ==
    /\ pc = "idle"
    /\ now < MaxPasses
    /\ now' = now + 1
    /\ op' = [kind |-> "add", incremental |-> FALSE,
              clear_existing |-> clear_existing, path |-> ""]
    /\ all_chunks' = chunks
    /\ all_metadata' = metadata
    /\ processed_files' = {}
    /\ skipped_files' = {}
    /\ i' = 0
    /\ IF chunks = <<>> \/ metadata = <<>>
       THEN pc' = "idle" /\ outcome' = "nothing_provided"
       ELSE IF Len(chunks) # Len(metadata)
       THEN pc' = "idle" /\ outcome' = "ValueError"
       ELSE /\ pc' = IF clear_existing THEN "delete" ELSE "batch"
            /\ outcome' = "running"
    /\ prev' = Snapshot
    /\ edited' = {}
    /\ last_search' = NoSearch
    /\ UNCHANGED <<faults, fs, writes, index_metadata, metadata_file,
                   chroma_vars, id_history, query_vars>>

\* add_documents returns after its last batch.
AddDocumentsReturns ==
    /\ pc = "finish"
    /\ op.kind = "add"
    /\ pc' = "idle"
    /\ outcome' = "ok"
    /\ last_search' = NoSearch
    /\ UNCHANGED <<faults, store_vars, index_metadata, metadata_file,
                   chroma_vars, pass_vars, i, id_history, query_vars>>

\* The calls of add_documents on an indexed collection, with the leading
\* chunks of one file and the leading metadata of one file.
NextAdd ==
    \/ /\ pc = "idle"
       /\ \E p \in Paths, q \in Paths, n \in 0..MaxAddLen,
             m \in 0..MaxAddLen, clear_existing \in BOOLEAN :
              AddDocuments(Take(ProcessChunks(fs, p), n),
                           Take(ProcessMetadata(fs, q), m), clear_existing)
    \/ DeleteCollection
    \/ CreateCollection
    \/ AddBatch
    \/ AddDocumentsReturns

SpecAdd == InitIndexed /\ [][NextAdd]_vars

\* ------------------------------------------------------- citation manager
\* The citation manager is called on an empty collection.
InitCitation ==
    /\ InitIndexed
    /\ \A p \in Paths : fs[p].content = 1
    /\ reranker

\* CitationManager.verify_citation called with a chunk text and an answer
\* that quotes it: the characters first to last of the chunk.
VerifyCitation(chunk_text, first, last) ==
    /\ qpc = "idle"
    /\ request' = [kind |-> "verify_citation", chunk_text |-> chunk_text,
                   answer |-> SubSeq(chunk_text, first, last)]
    /\ response' =
           [keys |-> {},
            grounded |-> verify_citation_text(chunk_text,
                                              SubSeq(chunk_text, first, last))]
    /\ qpc' = "done"
    /\ UNCHANGED <<index_vars, reranker, searches, events, llm_calls>>

\* No page: page_num=None, no "page" key in the metadata, no "[Page N]" in
\* the chunk text.
NoPage == -1

\* The page numbers told apart.
Pages == {0, 1, 2}

\* x or y, for page numbers: None and 0 are false.
Or(x, y) == IF x # NoPage /\ x # 0 THEN x ELSE y

\* extract_page_number: the metadata first, then the first "[Page N]" of
\* the chunk text.
extract_page_number(marker, metadata_page) ==
    IF metadata_page # NoPage THEN metadata_page ELSE marker

\* extract_citation: "page": page_num or metadata.get("page", None)
citation_page(metadata_page, page_num) == Or(page_num, metadata_page)

\* CitationManager.extract_citation called with a page number or without
\* one, as summarize_policy and compare_policies call it, on a chunk whose
\* metadata may have a page and whose text may have a "[Page N]".
ExtractCitation(metadata_page, marker, page_num) ==
    /\ qpc = "idle"
    /\ request' = [kind |-> "extract_citation",
                   metadata_page |-> metadata_page, marker |-> marker,
                   page_num |-> page_num]
    /\ response' = [keys |-> {"page"},
                    page |-> citation_page(metadata_page, page_num)]
    /\ qpc' = "done"
    /\ UNCHANGED <<index_vars, reranker, searches, events, llm_calls>>

\* CitationManager.create_citation_dict on one result: extract_citation
\* with the page extract_page_number finds.
CreateCitationDict(metadata_page, marker) ==
    /\ qpc = "idle"
    /\ request' = [kind |-> "create_citation_dict",
                   metadata_page |-> metadata_page, marker |-> marker,
                   page_num |-> NoPage]
    /\ response' =
           [keys |-> {"page"},
            page |-> citation_page(metadata_page,
                                   extract_page_number(marker,
                                                       metadata_page))]
    /\ qpc' = "done"
    /\ UNCHANGED <<index_vars, reranker, searches, events, llm_calls>>

NextCitation ==
    \/ /\ qpc = "idle"
       /\ \E chunk_text \in BoundedSeq(Characters, MaxTextLen) :
              \E first \in 1..Len(chunk_text) :
                  \E last \in first..Len(chunk_text) :
                      VerifyCitation(chunk_text, first, last)
    \/ \E metadata_page \in Pages \cup {NoPage}, marker \in Pages \cup {NoPage},
          page_num \in Pages \cup {NoPage} :
           ExtractCitation(metadata_page, marker, page_num)
    \/ \E metadata_page \in Pages \cup {NoPage}, marker \in Pages \cup {NoPage} :
           CreateCitationDict(metadata_page, marker)

SpecCitation == InitCitation /\ [][NextCitation]_vars

\* ---------------------------------------------------------- context budget
\* The most results _build_context is given.
MaxResults == 3

\* len(doc_marker): "\n[Document: Unknown]\n", and the same with ", Page 3".
MarkerLengths == {21, 29}

\* len(doc): short chunks and a chunk of CHUNK_SIZE characters.
DocLengths == {79, 279, 500}

\* The values of max_length.
Budgets == {300, 1000}

\* A context that goes on with the next result when one does not fit;
\* _build_context stops at the first that does not.
RECURSIVE context_parts_skipping(_, _, _, _, _)
context_parts_skipping(results, k, parts, current_length, max_length) ==
    IF k > Len(results) THEN parts
    ELSE LET marker == results[k].marker
             doc == results[k].doc
             remaining == max_length - current_length - marker - 100
             overflows == current_length + marker + doc > max_length
             length == IF overflows THEN marker + remaining + 3
                       ELSE marker + doc
         IN  IF overflows /\ ~(remaining > 100)
             THEN context_parts_skipping(results, k + 1, parts,
                                         current_length, max_length)
             ELSE context_parts_skipping(
                      results, k + 1,
                      Append(parts, [result |-> k, length |-> length,
                                     taken |-> length - marker,
                                     truncated |-> overflows]),
                      current_length + length, max_length)

\* _build_context, the loop from the k-th result on: the parts of the
\* context so far, each with the result it is made of, its length, the
\* characters it takes of the chunk (with the dots) and whether it is cut.
RECURSIVE context_parts(_, _, _, _, _)
context_parts(results, k, parts, current_length, max_length) ==
    IF k > Len(results) THEN parts
    ELSE LET marker == results[k].marker
             doc == results[k].doc
             remaining == max_length - current_length - marker - 100
             overflows == current_length + marker + doc > max_length
             length == IF overflows THEN marker + remaining + 3
                       ELSE marker + doc
         IN  IF overflows /\ ~(remaining > 100) THEN parts
             ELSE IF current_length + length >= max_length
             THEN Append(parts, [result |-> k, length |-> length,
                                 taken |-> length - marker,
                                 truncated |-> overflows])
             ELSE context_parts(
                      results, k + 1,
                      Append(parts, [result |-> k, length |-> length,
                                     taken |-> length - marker,
                                     truncated |-> overflows]),
                      current_length + length, max_length)

\* The sum of the lengths of the parts.
RECURSIVE TotalLength(_)
TotalLength(parts) ==
    IF parts = <<>> THEN 0 ELSE Head(parts).length + TotalLength(Tail(parts))

\* len("\n".join(context_parts))
JoinedLength(parts) ==
    IF parts = <<>> THEN 0 ELSE TotalLength(parts) + Len(parts) - 1

\* RAGEngine._build_context on results given by the lengths of their
\* markers and chunks: the parts, the length of the context, and the
\* citations returned, each by the result it cites and its rank.
BuildContext(results, max_length) ==
    /\ qpc = "idle"
    /\ request' = [kind |-> "build_context", results |-> results,
                   max_length |-> max_length]
    /\ LET parts == context_parts(results, 1, <<>>, 0, max_length)
           citations == [k \in 1..Len(results) |->
                            [result |-> k, rank |-> k]]
       IN  response' = [keys |-> {}, parts |-> parts,
                        context_length |-> JoinedLength(parts),
                        citations |-> Take(citations, Len(parts))]
    /\ qpc' = "done"
    /\ UNCHANGED <<index_vars, reranker, searches, events, llm_calls>>

NextContext ==
    /\ qpc = "idle"
    /\ \E results \in BoundedSeq([marker : MarkerLengths, doc : DocLengths],
                                 MaxResults) \ {<<>>},
          max_length \in Budgets :
           BuildContext(results, max_length)

SpecContext == InitCitation /\ [][NextContext]_vars

\* ------------------------------------------------------------- streaming
\* The most chunks the Completion Service streams for one request.
MaxChunks == 2

\* One event yielded by stream_query.
Event(type, content) == [type |-> type, content |-> content]

\* RAGEngine.stream_query up to the call of the Completion Service; without
\* a retrieved document it yields an error event and returns.
StreamQuery(question, top_k, category_filter) ==
    /\ qpc = "idle"
    /\ \E g \in Geometries(db.docs) :
           LET ids == search(db.docs, g, reranker, top_k, category_filter,
                             NoThreshold, TRUE)
           IN  /\ searches' =
                      <<SearchRecord(preprocess_query(question), top_k,
                                     category_filter, NoThreshold, ids)>>
               /\ request' =
                      [kind |-> "stream_query", question |-> question,
                       caller |-> "stream_query", function |-> "",
                       param_keys |-> {},
                       citations |-> build_context(db.docs, g, ids),
                       retrieved_docs |-> Len(ids), chunks |-> 0]
               /\ IF ids = <<>>
                  THEN /\ qpc' = "done"
                       /\ events' = <<Event("error", <<>>)>>
                  ELSE /\ qpc' = "create"
                       /\ events' = <<>>
    /\ UNCHANGED <<index_vars, reranker, response, llm_calls>>

\* client.chat.completions.create(stream=True) returns the stream, and the
\* citations are yielded.
StreamOpens ==
    /\ qpc = "create"
    /\ llm_calls' = Append(llm_calls, "ok")
    /\ events' = Append(events, Event("citations", request.citations))
    /\ qpc' = "stream"
    /\ UNCHANGED <<index_vars, reranker, request, response, searches>>

\* client.chat.completions.create(stream=True) raises.
StreamOpenFails ==
    /\ qpc = "create"
    /\ llm_calls' = Append(llm_calls, "error")
    /\ events' = Append(events, Event("error", <<>>))
    /\ qpc' = "done"
    /\ UNCHANGED <<index_vars, reranker, request, response, searches>>

\* The stream delivers a chunk; one with an empty delta yields nothing.
StreamChunk(has_content) ==
    /\ qpc = "stream"
    /\ request.chunks < MaxChunks
    /\ request' = [request EXCEPT !.chunks = @ + 1]
    /\ events' = IF has_content
                 THEN Append(events, Event("content", <<>>))
                 ELSE events
    /\ UNCHANGED <<index_vars, reranker, qpc, response, searches, llm_calls>>

\* The stream is exhausted.
StreamEnds ==
    /\ qpc = "stream"
    /\ events' = Append(events, Event("done", <<>>))
    /\ qpc' = "done"
    /\ UNCHANGED <<index_vars, reranker, request, response, searches,
                   llm_calls>>

\* Reading the next chunk of the stream raises.
StreamFails ==
    /\ qpc = "stream"
    /\ events' = Append(events, Event("error", <<>>))
    /\ qpc' = "done"
    /\ UNCHANGED <<index_vars, reranker, request, response, searches,
                   llm_calls>>

\* The requests to the RAG engine, one at a time, and the Completion
\* Service.
NextRag ==
    \/ /\ qpc = "idle"
       /\ \E question \in Questions, top_k \in TopKs,
             category_filter \in CategoryFilters,
             similarity_threshold \in Thresholds :
              Query(question, top_k, category_filter, similarity_threshold)
    \/ /\ qpc = "idle"
       /\ \E question \in Questions, top_k \in TopKs,
             category_filter \in CategoryFilters :
              StreamQuery(question, top_k, category_filter)
    \/ \E answer \in Answers : CompletionReturns(answer)
    \/ CompletionFails
    \/ StreamOpens
    \/ StreamOpenFails
    \/ \E has_content \in BOOLEAN : StreamChunk(has_content)
    \/ StreamEnds
    \/ StreamFails

SpecRag == InitIndexed /\ [][NextRag]_vars

\* ------------------------------------------------------------------ claims
\* The records the collection holds.
Stored == {db.docs[id] : id \in DOMAIN db.docs}

\* The records the collection held when the pass started.
StoredBefore == {prev.docs[id] : id \in DOMAIN prev.docs}

\* The vector records of the chunks of file p when its content is c.
ChunksOf(p, c) ==
    {[document |-> <<c, k>>,
      metadata |-> [file_path |-> p, chunk_id |-> k,
                    category |-> Category(p)]] : k \in 0..(ChunkCount(c) - 1)}

\* The records of file p among a set of vector records.
OfFile(records, p) == {d \in records : d.metadata.file_path = p}

\* The record add_documents submits for the k-th staged chunk.
StagedRecord(k) == [document |-> all_chunks[k], metadata |-> all_metadata[k]]

\* A pass has run to its end without an error, and the document store is
\* as the pass saw it.
PassCompleted ==
    /\ pc = "idle"
    /\ outcome = "ok"
    /\ op.kind \in {"index_all", "reindex"}
    /\ edited = {}

\* An incremental index_all_documents has completed that started right after
\* a completed incremental index_all_documents, with no file changed between.
SecondPassCompleted ==
    /\ PassCompleted
    /\ op.kind = "index_all"
    /\ op.incremental
    /\ prev.clean
    /\ prev.edited = {}

\* C1: a second index_all_documents(incremental=True) with no change of the
\* document store skips every file the first pass indexed or found indexed,
\* stages and inserts no chunk, and leaves the collection and every
\* IndexedFileRecord as they were.
C1_Idempotence ==
    SecondPassCompleted =>
        /\ all_chunks = <<>>
        /\ processed_files = {}
        /\ db.docs = prev.docs
        /\ index_metadata.indexed_files = prev.indexed_files
        /\ prev.indexed \subseteq skipped_files

\* C1 witness: a second pass has completed over a non-empty index and has
\* skipped a file.
C1_Witness ==
    /\ SecondPassCompleted
    /\ prev.docs # <<>>
    /\ prev.indexed # {}
    /\ skipped_files # {}

\* Exactly one indexed file was edited (new content with text, new
\* modification time) since the last completed pass, and an incremental pass
\* has completed since.
OneFileEdited(p) ==
    /\ PassCompleted
    /\ op.kind = "index_all"
    /\ op.incremental
    /\ prev.clean
    /\ prev.edited = {p}
    /\ Exists(fs, p)
    /\ prev.indexed_files[p] # NoRecord
    /\ prev.indexed_files[p].hash # FileHash(fs, p)
    /\ prev.indexed_files[p].mtime # FileMtime(fs, p)
    /\ ChunkCount(fs[p].content) > 0

\* C2: after one indexed file is edited and an incremental pass has run, the
\* collection holds the chunks of the file's new content and none of its old
\* content, and the chunks and records of every other file are unchanged.
C2_ChangeDetection ==
    \A p \in Paths :
        OneFileEdited(p) =>
            /\ ChunksOf(p, FileHash(fs, p)) \subseteq Stored
            /\ ChunksOf(p, prev.indexed_files[p].hash) \cap Stored = {}
            /\ \A q \in Paths \ {p} :
                   /\ OfFile(Stored, q) = OfFile(StoredBefore, q)
                   /\ index_metadata.indexed_files[q] = prev.indexed_files[q]

\* C3: when add_documents(clear_existing=False) returns, every chunk passed
\* to it is stored under the id the call assigned to it: the ids are distinct
\* from each other and from the ids already stored.
C3_UniqueIds ==
    (pc = "finish" /\ ~op.clear_existing) =>
        \A k \in 1..Len(all_chunks) :
            /\ (k - 1) \in DOMAIN db.docs
            /\ db.docs[k - 1] = StagedRecord(k)

RECURSIVE SumChunkCounts(_, _)
\* The sum of chunk_count over the records of the paths in S.
SumChunkCounts(files, S) ==
    IF S = {} THEN 0
    ELSE LET p == CHOOSE q \in S : TRUE
         IN  files[p].chunk_count + SumChunkCounts(files, S \ {p})

\* C4: at the completion of a pass the chunk counts of the records add up to
\* the number of records in the collection, and every record of the
\* collection belongs to a file that has an IndexedFileRecord.
C4_CountReconciliation ==
    PassCompleted =>
        /\ SumChunkCounts(index_metadata.indexed_files, Paths)
               = Cardinality(DOMAIN db.docs)
        /\ \A d \in Stored :
               index_metadata.indexed_files[d.metadata.file_path] # NoRecord

\* C5: no id assigned since the last clear of the collection was assigned
\* to a chunk before that clear.
C5_NoIdReuse == id_history.since \cap id_history.before = {}

\* The chunks a record stands for are all in the collection.
RecordBacked(meta, p) ==
    meta.indexed_files[p] # NoRecord
        => ChunksOf(p, meta.indexed_files[p].hash) \subseteq Stored

\* C6: whenever the pipeline is between passes, also after a crash or a
\* failed insert, every file with an IndexedFileRecord, in memory or in the
\* saved store, has all its chunks in the collection.
C6_NoFalseMark ==
    pc = "idle" =>
        \A p \in Paths :
            /\ RecordBacked(index_metadata, p)
            /\ RecordBacked(LoadIndexMetadata(metadata_file), p)

\* The insert batches holding the staged chunks of file p have all been
\* acknowledged.
Acknowledged(p) ==
    \A k \in 1..Len(all_metadata) : all_metadata[k].file_path = p => k <= i

\* C7: during index_all_documents a file's record is written only once the
\* batch with its chunks is acknowledged, and the store is saved after each
\* batch: after a crash the saved store holds the records of the files whose
\* batches were acknowledged.
C7_IncrementalPersistence ==
    /\ (pc \in {"delete", "create", "batch"} /\ op.kind = "index_all") =>
           \A p \in processed_files :
               index_metadata.indexed_files[p].indexed_at = now
                   => Acknowledged(p)
    /\ (outcome = "crashed" /\ op.kind = "index_all" /\ edited = {}) =>
           \A p \in processed_files :
               Acknowledged(p) =>
                   LoadIndexMetadata(metadata_file).indexed_files[p].hash
                       = FileHash(fs, p)

\* The files the pass in progress or last run put through process_document
\* with a result.
FilesOfPass == IF op.kind = "reindex" THEN {op.path} ELSE processed_files

\* C8: when the save of the metadata store has failed, none of the files the
\* pass processed counts as indexed for the next up-to-date check.
C8_SaveFailureMarksNothing ==
    (outcome = "save_error" /\ edited = {}) =>
        \A p \in FilesOfPass : ~IsFileIndexed(index_metadata, fs, p)

\* What the collection holds once every staged chunk is inserted into an
\* empty collection.
NewContents ==
    [id \in 0..(Len(all_chunks) - 1) |-> StagedRecord(id + 1)]

\* C9: a search made between the drop of the old collection and the end of
\* the inserts of a clear_existing pass succeeds and sees the complete old
\* contents or the complete new contents.
C9_NoTransientEmpty ==
    (op.clear_existing /\ last_search.at \in {"create", "batch", "finish"}) =>
        /\ last_search.status = "ok"
        /\ last_search.docs \in {prev.docs, NewContents}

\* The files extract_text got no text from in the pass.
FailedFiles ==
    {p \in Paths : Exists(fs, p) /\ ChunkCount(fs[p].content) = 0
                   /\ p \notin skipped_files}

\* C10: when extraction fails for a file, index_all_documents still runs to
\* its end, every other file it did not skip is chunked, inserted and
\* recorded, and the failed file is given no record.
C10_ExtractionFailureSkipped ==
    (PassCompleted /\ op.kind = "index_all" /\ FailedFiles # {}) =>
        /\ \A f \in FailedFiles :
               index_metadata.indexed_files[f] = prev.indexed_files[f]
        /\ \A p \in Paths \ FailedFiles :
               (Exists(fs, p) /\ p \notin skipped_files) =>
                   /\ ChunksOf(p, FileHash(fs, p)) \subseteq Stored
                   /\ index_metadata.indexed_files[p] =
                          [hash |-> FileHash(fs, p),
                           mtime |-> FileMtime(fs, p),
                           chunk_count |-> ChunkCount(fs[p].content),
                           indexed_at |-> now]

\* The vector records of the files that have an IndexedFileRecord in meta.
RecordedChunks(meta) ==
    UNION {ChunksOf(p, meta.indexed_files[p].hash) :
               p \in {q \in Paths : meta.indexed_files[q] # NoRecord}}

\* The records add_documents was given by the pass.
StagedRecords == {StagedRecord(k) : k \in 1..Len(all_chunks)}

\* C11: when index_all_documents(incremental, clear_existing=True) has
\* completed, for either value of incremental, the collection holds nothing
\* from before the pass that the pass did not insert, and holds exactly the
\* chunks of the files that have an IndexedFileRecord.
C11_FullRebuild ==
    (PassCompleted /\ op.kind = "index_all" /\ op.clear_existing) =>
        /\ all_chunks # <<>> => Stored = StagedRecords
        /\ Stored = RecordedChunks(index_metadata)

\* C12: when reindex_file has completed on an existing file with text, the
\* collection holds the chunks of the file's current content and no other
\* chunk of the file, and the saved metadata store holds the file's record with its
\* current hash and chunk count.
C12_ReindexFile ==
    (/\ PassCompleted
     /\ op.kind = "reindex"
     /\ Exists(fs, op.path)
     /\ ChunkCount(fs[op.path].content) > 0) =>
        /\ OfFile(Stored, op.path) = ChunksOf(op.path, FileHash(fs, op.path))
        /\ LoadIndexMetadata(metadata_file).indexed_files[op.path].hash
               = FileHash(fs, op.path)
        /\ LoadIndexMetadata(metadata_file).indexed_files[op.path].chunk_count
               = ChunkCount(fs[op.path].content)

\* The effective top_k of the call being served.
EffectiveTopK ==
    IF request.top_k = NoTopK THEN TOP_K_RESULTS ELSE request.top_k

\* C20: search and hybrid_search return at most top_k results, with and
\* without a re-ranker, and hybrid_search without a re-ranker returns what a
\* search without re-ranking returns for the same top_k.
C20_ResultCountBound ==
    /\ request.kind \in {"search", "hybrid_search"} =>
           Len(response.ids) <= EffectiveTopK
    /\ (request.kind = "hybrid_search" /\ ~reranker) =>
           response.ids = search(db.docs, request.geometry, reranker,
                                 request.top_k, request.category_filter,
                                 NoThreshold, FALSE)

\* The intents in the order of their precedence.
IntentOrder == <<"policy_comparison", "policy_summary", "fee_query",
                 "calendar_query", "policy_search">>

\* The first intent from the k-th on whose patterns match the query, or
\* general.
RECURSIVE FirstMatchingIntent(_, _)
FirstMatchingIntent(q, k) ==
    IF k > Len(IntentOrder) THEN "general"
    ELSE IF MatchesIntent(q, IntentOrder[k]) THEN IntentOrder[k]
    ELSE FirstMatchingIntent(q, k + 1)

\* C13: classify_intent returns the first intent, in the order
\* policy_comparison, policy_summary, fee_query, calendar_query,
\* policy_search, general, whose pattern list matches the query, whether or
\* not the parameters can be extracted.
C13_IntentPrecedence ==
    request.kind = "route" =>
        request.intent = FirstMatchingIntent(request.question, 1)

\* "Compare hostel policy and library policy"
ScenarioC == <<"compare", "hostel", "policy", "and", "library", "policy">>

\* C14: route("Compare hostel policy and library policy") classifies the
\* query as policy_comparison with policy1 "hostel" and policy2 "library",
\* and returns used_function = True from compare_policies.
C14_ScenarioC ==
    (request.kind = "route" /\ request.question = ScenarioC
        /\ qpc = "done") =>
        /\ response.intent = "policy_comparison"
        /\ response.parameters.policy1 = <<"hostel">>
        /\ response.parameters.policy2 = <<"library">>
        /\ response.used_function
        /\ response.function = "compare_policies"

\* route has returned.
RouteReturned == request.kind = "route" /\ qpc = "done"

\* The last search of the request returned no document.
NothingRetrieved == searches # <<>> /\ searches[Len(searches)].found = 0

\* C15: whatever the handler's outcome, the dictionary route returns has
\* intent, parameters, used_function, an answer or a result, citations and
\* is_grounded, with used_function true exactly for the intents other than
\* general; and when nothing was retrieved the caller of chat is not told
\* that the answer is grounded.
C15_ResponseShape ==
    RouteReturned =>
        /\ {"intent", "parameters", "used_function", "citations",
            "is_grounded"} \subseteq response.keys
        /\ {"answer", "result"} \cap response.keys # {}
        /\ response.used_function = (response.intent # "general")
        /\ NothingRetrieved => ~chat(response).is_grounded

\* The words a handler adds to its query for a parameter that is set.
ParameterWords ==
    [policy_type |-> {"academic", "hostel", "library", "examination",
                      "admission"},
     program |-> {"b.tech", "btech", "m.tech", "mtech", "phd", "mba",
                  "program"},
     semester |-> {"semester"},
     event_type |-> {"registration", "examination", "exam", "holiday",
                     "vacation", "deadline"},
     date_range |-> {"2024", "2024-2025"}]

\* A parameter of the request that classify_intent left unset.
Unset(name) ==
    /\ name \in request.parameters.keys
    /\ request.parameters[name] = None

\* C16: when classify_intent leaves a parameter unset, the handler searches
\* without a category filter and without a word for that parameter in the
\* query.
C16_UnsetParameters ==
    (request.kind = "route" /\ qpc \in {"generate", "done"}) =>
        \A name \in DOMAIN ParameterWords :
            Unset(name) =>
                \A k \in 1..Len(searches) :
                    /\ searches[k].category_filter = ""
                    /\ \A w \in ParameterWords[name] :
                           ~TextContains(searches[k].query, w)

\* C19: when the call of the Completion Service fails while route serves a
\* query, route returns a dictionary whose answer is the apology, with
\* is_grounded false and an error field, after a single call of the
\* Completion Service.
C19_CompletionFailure ==
    (RouteReturned /\ "error" \in Range(llm_calls)) =>
        /\ chat(response).answer.kind = "apology"
        /\ "is_grounded" \in response.keys
        /\ ~response.is_grounded
        /\ "error" \in response.keys
        /\ Len(llm_calls) = 1

\* query has searched and found no document.
EmptyRetrieval ==
    /\ request.kind = "query"
    /\ searches[1].found = 0

\* C17: whenever the search of query(question, ...) returns no document,
\* query returns the fixed not-found answer with is_grounded false,
\* retrieved_docs 0 and no citations, and the Completion Service is not
\* called for that request.
C17_EmptyRetrieval ==
    EmptyRetrieval =>
        /\ qpc = "done"
        /\ {"answer", "citations", "is_grounded", "retrieved_docs"}
               \subseteq response.keys
        /\ response.answer = Text("not found", {})
        /\ ~response.is_grounded
        /\ response.retrieved_docs = 0
        /\ response.citations = <<>>
        /\ llm_calls = <<>>

\* query returned without a document although chunks are stored: the
\* similarity threshold or the category filter excluded all of them.
C17_Witness ==
    /\ EmptyRetrieval
    /\ qpc = "done"
    /\ DOMAIN db.docs # {}
    /\ \/ searches[1].similarity_threshold # NoThreshold
       \/ searches[1].category_filter # ""

\* The types of the events that end a stream.
Terminal == {"done", "error"}

\* C18: every run of stream_query yields a citations event first, then
\* content events, then one terminal event, done or error, and nothing after
\* it.
C18_StreamingOrder ==
    request.kind = "stream_query" =>
        /\ events # <<>> => events[1].type = "citations"
        /\ \A k \in 2..Len(events) :
               /\ events[k].type \in {"content"} \cup Terminal
               /\ events[k - 1].type \notin Terminal
        /\ qpc = "done" => events[Len(events)].type \in Terminal

\* What the search of the request returns for another threshold, on the same
\* collection and for the same query.
SearchUnder(t) ==
    search(db.docs, request.geometry, reranker, request.top_k,
           request.category_filter, t, request.use_reranking)

\* The similarity of a stored chunk to the query of the request, in tenths.
Similarity(id) == 10 - request.geometry.distance[id]

\* C21: every result of search with similarity_threshold = t has a
\* similarity of at least t; the results are those of the ranked list
\* truncated to top_k that reach the threshold, in that list's order; and a
\* higher threshold never gives more results on the same collection and
\* query.
C21_ThresholdFiltering ==
    (request.kind = "search"
        /\ request.similarity_threshold # NoThreshold) =>
        /\ \A k \in 1..Len(response.ids) :
               Similarity(response.ids[k]) >= request.similarity_threshold
        /\ response.ids =
               Keep(SearchUnder(NoThreshold),
                    {id \in DOMAIN db.docs :
                        Similarity(id) >= request.similarity_threshold})
        /\ \A t1, t2 \in Thresholds \ {NoThreshold} :
               t1 <= t2 => Len(SearchUnder(t2)) <= Len(SearchUnder(t1))
        /\ \A t \in Thresholds :
               t >= request.similarity_threshold
                   => Len(SearchUnder(t)) <= Len(response.ids)

\* A search whose threshold removed a chunk the re-ranker had put first,
\* leaving fewer than top_k results.
C21_Witness ==
    /\ request.kind = "search"
    /\ request.similarity_threshold # NoThreshold
    /\ request.use_reranking /\ reranker
    /\ response.ids # <<>>
    /\ Len(response.ids) < Len(SearchUnder(NoThreshold))
    /\ Head(SearchUnder(NoThreshold)) # Head(response.ids)

\* add_documents was called with lists of different lengths.
Mismatched == op.kind = "add" /\ Len(all_chunks) # Len(all_metadata)

\* C22: called with a chunk list and a metadata list of different lengths,
\* also when one of the two is empty, add_documents fails with a validation
\* error and the collection is as before, not cleared and not modified,
\* whatever clear_existing is.
C22_RejectsMismatch ==
    Mismatched =>
        /\ pc = "idle"
        /\ outcome = "ValueError"
        /\ db = [exists |-> TRUE, uid |-> 1, docs |-> prev.docs]

\* The words of a text that are not common words, each as often as it
\* occurs.
ContentWords(text) ==
    Keep(Split(Lower(text)),
         Range(Split(Lower(text))) \ CommonWordsSpelled)

\* C23: verify_citation(chunk, answer) is true for every chunk text and
\* every answer that is a verbatim substring of the chunk and has three or
\* more words that are not common words.
C23_VerbatimGrounded ==
    (request.kind = "verify_citation"
        /\ Len(ContentWords(request.answer)) >= 3) =>
        response.grounded

\* A quotation that begins and ends inside a word of the chunk, so that its
\* first and last word are not words of the chunk.
C23_Witness ==
    /\ request.kind = "verify_citation"
    /\ Len(ContentWords(request.answer)) = 3
    /\ Head(ContentWords(request.answer))
           \notin Range(Split(Lower(request.chunk_text)))
    /\ ContentWords(request.answer)[3]
           \notin Range(Split(Lower(request.chunk_text)))
    /\ response.grounded

\* The Completion Service has answered and the answer has been returned.
Answered == qpc = "done" /\ llm_calls = <<"ok">>

\* The answer returned, and the words of its text.
AnswerText ==
    IF request.kind = "route" THEN chat(response).answer ELSE response.answer

\* C24: the is_grounded of an answer is the disjunction, over its citations,
\* of verify_citation on the full text of the cited chunk and the answer; it
\* is false without citations.
C24_GroundedIsDisjunction ==
    Answered =>
        response.is_grounded =
            \E k \in 1..Len(response.citations) :
                verify_citation(
                    ChunkWords(response.citations[k].text_preview.chunk),
                    AnswerText.words)

\* The candidates of the request's search: the 2 * top_k nearest chunks of
\* the category.
Candidates ==
    CollectionQuery(db.docs, request.geometry, 2 * EffectiveTopK,
                    request.category_filter)

\* C25: with use_reranking and a re-ranker loaded, search returns the
\* 2 * top_k nearest chunks in descending order of their re-ranking score,
\* truncated to top_k, however many candidates the collection returns.
C25_RerankedSearch ==
    (request.kind = "search" /\ request.use_reranking /\ reranker
        /\ request.similarity_threshold = NoThreshold) =>
        response.ids =
            Take(Keep(request.geometry.preference, Range(Candidates)),
                 EffectiveTopK)

\* The results of the request that are not in the context.
Dropped ==
    {k \in 1..Len(request.results) :
        \A n \in 1..Len(response.parts) : response.parts[n].result # k}

\* C26: the context _build_context assembles is never longer than
\* max_length; a chunk is cut, with the dots, only when it would overflow and
\* more than 100 of its characters are kept.
C26_ContextBudget ==
    request.kind = "build_context" =>
        /\ response.context_length <= request.max_length
        /\ \A n \in 1..Len(response.parts) :
               response.parts[n].truncated =>
                   /\ response.parts[n].taken - 3 > 100
                   /\ response.parts[n].taken - 3
                          < request.results[response.parts[n].result].doc

\* C27: the citations returned are those of the chunks in the context, one
\* for each, in the order of the ranks, with the ranks 1..n; none cites a
\* chunk that was dropped.
C27_CitationsMatchContext ==
    request.kind = "build_context" =>
        /\ Len(response.citations) = Len(response.parts)
        /\ \A n \in 1..Len(response.parts) :
               /\ response.citations[n].result = response.parts[n].result
               /\ response.citations[n].rank = n
        /\ \A n \in 1..Len(response.citations) :
               response.citations[n].result \notin Dropped

\* A context with a cut chunk, from which a later result was dropped.
C27_Witness ==
    /\ request.kind = "build_context"
    /\ Dropped # {}
    /\ \E n \in 1..Len(response.parts) : response.parts[n].truncated
    /\ Len(response.citations) >= 2

\* The page of the order explicit argument, metadata, "[Page N]" marker.
ResolvedPage ==
    IF request.page_num # NoPage THEN request.page_num
    ELSE IF request.metadata_page # NoPage THEN request.metadata_page
    ELSE request.marker

\* C28: the page of a citation is the page number passed to
\* extract_citation when one is passed, 0 included; otherwise the page of
\* the metadata when it has one; otherwise the number of the first
\* "[Page N]" of the chunk text; otherwise none. The same for the callers
\* that pass no page number.
C28_PageResolution ==
    request.kind \in {"extract_citation", "create_citation_dict"} =>
        response.page = ResolvedPage

\* An incremental index_all_documents has run to its end, and the document
\* store is as the pass saw it.
IncrementalPassCompleted ==
    /\ PassCompleted
    /\ op.kind = "index_all"
    /\ op.incremental

\* The file exists, the pass found a record of it, and the file's hash or
\* its modification time is the record's.
UpToDate(p) ==
    /\ fs[p] # Absent
    /\ prev.indexed_files[p] # NoRecord
    /\ \/ prev.indexed_files[p].hash = fs[p].content
       \/ prev.indexed_files[p].mtime = fs[p].mtime

C30_MetadataDurability ==
    (pc = "idle" /\ outcome = "ok"
        /\ op.kind \in {"index_all", "reindex"}) =>
        LoadIndexMetadata(metadata_file) = index_metadata

====
